---- MODULE Spec2Model ----
(***************************************************************************)
(* CodeMap backend (src/Backend/main.py): the builder that turns the       *)
(* statement tree of one function into the node/edge lists of a Mermaid    *)
(* flowchart, and the label escaper it applies to every node label.        *)
(*                                                                         *)
(* Texts are sequences of one-character strings.  A statement is a record  *)
(*   [kind, text, body, orelse]                                            *)
(* with kind the name of the ast class, text what ast.unparse renders for  *)
(* the part the code prints (the test of an If/While, the header of a For, *)
(* the whole statement otherwise), body and orelse the statement lists.    *)
(***************************************************************************)
EXTENDS Integers, Sequences, FiniteSets, TLC

VARIABLES func, pc, edges, labels, shapes, next_free, trace, text, once, twice

vars == <<func, pc, edges, labels, shapes, next_free, trace, text, once, twice>>

(* Bounds of the model. *)
MaxSize == 5
MaxTextLen == 3

NoLabel == ""

(***************************************************************************)
(* Texts                                                                   *)
(***************************************************************************)
LT == "<"
GT == ">"
DQ == "\""
SQ == "'"
AMP == "&"
PIPE == "|"
NL == "\n"

T_Then == <<"T", "h", "e", "n">>
T_Else == <<"E", "l", "s", "e">>
T_EndIf == <<"E", "n", "d", " ", "I", "f">>
T_Body == <<"B", "o", "d", "y">>
T_AfterLoop == <<"A", "f", "t", "e", "r", " ", "L", "o", "o", "p">>
T_Function == <<"F", "u", "n", "c", "t", "i", "o", "n", ":", " ">>
T_If == <<"I", "f", ":", " ">>
T_Elif == <<"E", "l", "i", "f", ":", " ">>
T_For == <<"F", "o", "r", ":", " ">>
T_While == <<"W", "h", "i", "l", "e", ":", " ">>
T_True == <<"T", "r", "u", "e">>

(* Renderings of the parts of the enumerated statements. *)
T_name == <<"f">>
T_test == <<"a", " ", "<", " ", "b">>
T_iter == <<"i", " ", "i", "n", " ", "r">>
T_assign == <<"x", " ", "=", " ", "1">>
T_return == <<"r", "e", "t", "u", "r", "n", " ", "x">>

(* str.replace(old, new) for a one-character old. *)
RECURSIVE Replace(_, _, _)
Replace(s, old, new) ==
    IF s = <<>> THEN <<>>
    ELSE (IF Head(s) = old THEN new ELSE <<Head(s)>>) \o Replace(Tail(s), old, new)

escape_label(t) ==
    Replace(Replace(Replace(Replace(t, LT, <<"&", "l", "t", ";">>),
                            GT, <<"&", "g", "t", ";">>),
                    DQ, <<SQ>>),
            AMP, <<"&", "a", "m", "p", ";">>)

shape_label(node_type, t) ==
    IF node_type = "FunctionDef" THEN <<t, "circle">>
    ELSE IF node_type \in {"If", "Elif", "While", "For"} THEN <<t, "diamond">>
    ELSE IF node_type \in {"Return", "Expr", "Assign", "AugAssign", "Call", "Process"}
         THEN <<t, "rect">>
    ELSE <<t, "rect">>

(***************************************************************************)
(* The accumulator threaded through the builder: the edges list and the    *)
(* labels and shapes dictionaries of ast_to_mermaid, and the debug log     *)
(* (one entry per node written and per return of ast_to_mermaid).          *)
(* An entry of the log is [role, id, owner, stmt]: owner is the position   *)
(* of the statement the entry belongs to (the body of the statement at     *)
(* position p is the list p \o <<0>>, its orelse the list p \o <<-1>>, and *)
(* the i-th statement of list l is at l \o <<i>>).                         *)
(***************************************************************************)
EmptyGraph == [edges |-> <<>>, labels |-> <<>>, shapes |-> <<>>, trace |-> <<>>]

Put(f, k, v) == (k :> v) @@ f

Entry(role, id, owner, stmt) == [role |-> role, id |-> id, owner |-> owner, stmt |-> stmt]

add_edge(g, frm, to, label) ==
    [g EXCEPT !.edges = Append(@, [frm |-> frm, to |-> to, label |-> label])]

(* labels[id] = escape_label(label_text); shapes[id] = shape; logger.debug *)
set_node(g, id, node_type, t, role, owner, stmt) ==
    LET sl == shape_label(node_type, t)
    IN [g EXCEPT !.labels = Put(@, id, escape_label(sl[1])),
                 !.shapes = Put(@, id, sl[2]),
                 !.trace = Append(@, Entry(role, id, owner, stmt))]

(* return edges, labels, shapes, next_id *)
ret(g, next_id, owner, stmt) ==
    [g |-> [g EXCEPT !.trace = Append(@, Entry("return", next_id, owner, stmt))],
     next |-> next_id]

(* The node a nested If/For/While hands back to the statement loop. *)
sub_edge_target_next(next_id_sub) == next_id_sub

sub_edge_target(next_id_sub) == next_id_sub - 1

sub_last_id(next_id_sub) == next_id_sub - 1

(* The id of the "End If" node and of the "After Loop" node. *)
merge_after_reuse(last_id) == last_id

merge_after(last_id) == last_id + 1

after_id(last_id) == last_id + 1

(* The labels of the edge from the end of a loop body to the loop header. *)
for_back_label_repeat == "Repeat"

for_back_label == "Next Iteration"

while_back_label == "Repeat"

dummy_if(else_branch_elif) ==
    [kind |-> "If", text |-> T_True, body |-> else_branch_elif, orelse |-> <<>>]

RECURSIVE ast_to_mermaid(_, _, _, _)
RECURSIVE stmt_loop(_, _, _, _, _)

(* One statement of the for loop of process_stmt_list that is not an       *)
(* If/For/While.                                                           *)
simple_stmt_reversed(g, stmt, last_id, owner) ==
    LET next_id == last_id + 1
        g1 == set_node(g, next_id, stmt.kind, stmt.text, "stmt", owner, stmt)
    IN [g |-> add_edge(g1, next_id, last_id, NoLabel), last_id |-> next_id]

simple_stmt(g, stmt, last_id, owner) ==
    LET next_id == last_id + 1
        g1 == set_node(g, next_id, stmt.kind, stmt.text, "stmt", owner, stmt)
    IN [g |-> add_edge(g1, last_id, next_id, NoLabel), last_id |-> next_id]

(* One statement of the for loop that is an If/For/While. *)
compound_stmt(g, stmt, last_id, owner) ==
    LET next_id == last_id + 1
        sub == ast_to_mermaid(stmt, next_id, g, owner)
    IN [g |-> add_edge(sub.g, last_id, sub_edge_target(sub.next), NoLabel),
        last_id |-> sub_last_id(sub.next)]

(* The for loop of process_stmt_list from its i-th statement on. *)
stmt_loop(stmt_list, i, last_id, g, list) ==
    IF i > Len(stmt_list) THEN [g |-> g, last_id |-> last_id]
    ELSE LET stmt == stmt_list[i]
             r == IF stmt.kind \in {"If", "For", "While"}
                  THEN compound_stmt(g, stmt, last_id, Append(list, i))
                  ELSE simple_stmt(g, stmt, last_id, Append(list, i))
         IN stmt_loop(stmt_list, i + 1, r.last_id, r.g, list)

process_stmt_list(stmt_list, start_id, g, list) ==
    stmt_loop(stmt_list, 1, start_id, g, list)

function_case(node, current_id, g, path) ==
    LET g1 == set_node(g, current_id, "FunctionDef", T_Function \o node.text,
                       "start", path, node)
        r == process_stmt_list(node.body, current_id, g1, Append(path, 0))
    IN ret(r.g, r.last_id + 1, path, node)

(* The "End If" node of an If and the edge into it from the end of the     *)
(* then-branch.                                                            *)
merge_node(g, node, path, last_id, then_end) ==
    LET merge_id == merge_after(last_id)
        g1 == set_node(g, merge_id, "Process", T_EndIf, "merge", path, node)
    IN [g |-> add_edge(g1, then_end, merge_id, NoLabel), merge_id |-> merge_id]

elif_case(node, current_id, g, path, then_end) ==
    LET elif_node == node.orelse[1]
        elif_path == path \o <<-1, 1>>
        elif_start == then_end + 1
        g1 == set_node(g, elif_start, "Elif", T_Elif \o elif_node.text,
                       "elif", elif_path, elif_node)
        g2 == add_edge(g1, current_id, elif_start, "False")
        then_start == elif_start + 1
        g3 == set_node(g2, then_start, "Process", T_Then, "then", elif_path, elif_node)
        g4 == add_edge(g3, elif_start, then_start, "True")
        r == process_stmt_list(elif_node.body, then_start, g4, Append(elif_path, 0))
        then_end_elif == r.last_id
        else_branch_elif == elif_node.orelse
        else_start_elif == then_end_elif + 1
        sub == ast_to_mermaid(dummy_if(else_branch_elif), else_start_elif, r.g,
                              Append(elif_path, -1))
        g5 == IF else_branch_elif # <<>>
              THEN add_edge(sub.g, elif_start, else_start_elif, "False")
              ELSE r.g
        last_id == IF else_branch_elif # <<>> THEN sub.next - 1 ELSE then_end_elif
        m == merge_node(g5, node, path, last_id, then_end)
        g6 == add_edge(m.g, then_end_elif, m.merge_id, NoLabel)
    IN ret(g6, m.merge_id + 1, path, node)

else_case(node, current_id, g, path, then_end) ==
    LET else_start == then_end + 1
        g1 == set_node(g, else_start, "Process", T_Else, "else", path, node)
        g2 == add_edge(g1, current_id, else_start, "False")
        r == process_stmt_list(node.orelse, else_start, g2, Append(path, -1))
        else_end == r.last_id
        m == merge_node(r.g, node, path, else_end, then_end)
        g3 == add_edge(m.g, else_end, m.merge_id, NoLabel)
    IN ret(g3, m.merge_id + 1, path, node)

no_else_case(node, current_id, g, path, then_end) ==
    LET m == merge_node(g, node, path, then_end, then_end)
        g1 == add_edge(m.g, current_id, m.merge_id, "False")
    IN ret(g1, m.merge_id + 1, path, node)

if_case(node, current_id, g, path) ==
    LET g1 == set_node(g, current_id, "If", T_If \o node.text, "decision", path, node)
        then_start == current_id + 1
        g2 == set_node(g1, then_start, "Process", T_Then, "then", path, node)
        g3 == add_edge(g2, current_id, then_start, "True")
        r == process_stmt_list(node.body, then_start, g3, Append(path, 0))
        then_end == r.last_id
        else_branch == node.orelse
    IN IF else_branch # <<>>
       THEN IF Len(else_branch) = 1 /\ else_branch[1].kind = "If"
            THEN elif_case(node, current_id, r.g, path, then_end)
            ELSE else_case(node, current_id, r.g, path, then_end)
       ELSE no_else_case(node, current_id, r.g, path, then_end)

for_case(node, current_id, g, path) ==
    LET g1 == set_node(g, current_id, "For", T_For \o node.text, "header", path, node)
        body_start == current_id + 1
        g2 == set_node(g1, body_start, "Process", T_Body, "body", path, node)
        g3 == add_edge(g2, current_id, body_start, "True")
        r == process_stmt_list(node.body, body_start, g3, Append(path, 0))
        last_id == r.last_id
        g4 == add_edge(r.g, last_id, current_id, for_back_label)
        after_loop == after_id(last_id)
        g5 == set_node(g4, after_loop, "Process", T_AfterLoop, "after", path, node)
        g6 == add_edge(g5, current_id, after_loop, "False")
    IN ret(g6, after_loop + 1, path, node)

while_case(node, current_id, g, path) ==
    LET g1 == set_node(g, current_id, "While", T_While \o node.text, "header", path, node)
        body_start == current_id + 1
        g2 == set_node(g1, body_start, "Process", T_Body, "body", path, node)
        g3 == add_edge(g2, current_id, body_start, "True")
        r == process_stmt_list(node.body, body_start, g3, Append(path, 0))
        last_id == r.last_id
        g4 == add_edge(r.g, last_id, current_id, while_back_label)
        after_loop == after_id(last_id)
        g5 == set_node(g4, after_loop, "Process", T_AfterLoop, "after", path, node)
        g6 == add_edge(g5, current_id, after_loop, "False")
    IN ret(g6, after_loop + 1, path, node)

(* Return, Expr, Assign, AugAssign and the default fallback: one node. *)
leaf_case(node, current_id, g, path) ==
    ret(set_node(g, current_id, node.kind, node.text, "stmt", path, node),
           current_id + 1, path, node)

ast_to_mermaid(node, node_id, g, path) ==
    IF node.kind = "FunctionDef" THEN function_case(node, node_id, g, path)
    ELSE IF node.kind = "If" THEN if_case(node, node_id, g, path)
    ELSE IF node.kind = "For" THEN for_case(node, node_id, g, path)
    ELSE IF node.kind = "While" THEN while_case(node, node_id, g, path)
    ELSE leaf_case(node, node_id, g, path)

(***************************************************************************)
(* The statement trees handed to the builder: every function whose body    *)
(* holds at most MaxSize statements in all, nested ones included.  As in   *)
(* the grammar, the body of an If, For or While is not empty; the body of  *)
(* the function may be (a FunctionDef built by hand).                      *)
(***************************************************************************)
Simple(kind, t) == [kind |-> kind, text |-> t, body |-> <<>>, orelse |-> <<>>]

SimpleStmts == {Simple("Assign", T_assign), Simple("Return", T_return)}

If(body, orelse) == [kind |-> "If", text |-> T_test, body |-> body, orelse |-> orelse]

For(body) == [kind |-> "For", text |-> T_iter, body |-> body, orelse |-> <<>>]

While(body) == [kind |-> "While", text |-> T_test, body |-> body, orelse |-> <<>>]

(* A table T holds at T[k + 1] the statements (stmts) and the statement    *)
(* lists (lists) of exactly k statements in all.  WithLists(T, n, stmts)   *)
(* extends the table of the sizes below n by the entry of size n.          *)
WithLists(T, n, stmts) ==
    Append(T, [stmts |-> stmts,
               lists |-> UNION {{<<s>> \o l : s \in (IF j = n THEN stmts ELSE T[j + 1].stmts),
                                             l \in T[n - j + 1].lists} : j \in 1..n}])

StmtsOf(T, n) ==
    IF n = 1 THEN SimpleStmts
    ELSE UNION {{If(b, o) : b \in T[k + 1].lists, o \in T[n - k].lists} : k \in 1..(n - 1)}
         \cup {For(b) : b \in T[n].lists}
         \cup {While(b) : b \in T[n].lists}

(* BySize(n)[k + 1], k \in 0..n: the statements and lists of size k.  (The *)
(* singleton sets bind a value that is computed once.)                     *)
RECURSIVE BySize(_)
BySize(n) ==
    IF n = 0 THEN <<[stmts |-> {}, lists |-> {<<>>}]>>
    ELSE CHOOSE R \in UNION {{WithLists(T, n, stmts) : stmts \in {StmtsOf(T, n)}} :
                                T \in {BySize(n - 1)}} : TRUE

FunctionDef(body) == [kind |-> "FunctionDef", text |-> T_name, body |-> body, orelse |-> <<>>]

(* The statements and lists of fewer than MaxSize statements. *)
Table == BySize(MaxSize - 1)

(* The texts handed to escape_label. *)
Alphabet == {LT, GT, DQ, AMP, PIPE, NL, "a"}

Texts == UNION {[1..n -> Alphabet] : n \in 0..MaxTextLen}

(***************************************************************************)
(* The builder as a state machine: a request names a function of the       *)
(* parsed module, and analyze_code runs ast_to_mermaid on it.              *)
(***************************************************************************)
(* func is a function whose body holds at most MaxSize statements in all:  *)
(* fewer than MaxSize, or a first statement and the rest, or one If, For   *)
(* or While of MaxSize statements.                                         *)
Parsed ==
    \/ \E n \in 0..(MaxSize - 1) : \E body \in Table[n + 1].lists :
          func = FunctionDef(body)
    \/ \E k \in 1..(MaxSize - 1) : \E s \in Table[k + 1].stmts :
          \E l \in Table[MaxSize - k + 1].lists : func = FunctionDef(<<s>> \o l)
    \/ \E k \in 1..(MaxSize - 1) : \E b \in Table[k + 1].lists :
          \E o \in Table[MaxSize - k].lists : func = FunctionDef(<<If(b, o)>>)
    \/ \E b \in Table[MaxSize].lists :
          func = FunctionDef(<<For(b)>>) \/ func = FunctionDef(<<While(b)>>)

Init ==
    /\ Parsed
    /\ pc = "ready"
    /\ edges = <<>>
    /\ labels = <<>>
    /\ shapes = <<>>
    /\ next_free = 0
    /\ trace = <<>>
    /\ text = <<>>
    /\ once = <<>>
    /\ twice = <<>>

(* edges, labels, shapes, _ = ast_to_mermaid(func_node) *)
Build ==
    /\ pc = "ready"
    /\ \E r \in {ast_to_mermaid(func, 0, EmptyGraph, <<>>)} :
          /\ edges' = r.g.edges
          /\ labels' = r.g.labels
          /\ shapes' = r.g.shapes
          /\ trace' = r.g.trace
          /\ next_free' = r.next
    /\ pc' = "built"
    /\ UNCHANGED <<func, text, once, twice>>

Next == Build

Spec == Init /\ [][Next]_vars

(***************************************************************************)
(* The label escaper on its own: a text is escaped, and the result is      *)
(* escaped again.                                                          *)
(***************************************************************************)
InitEscape ==
    /\ func = FunctionDef(<<>>)
    /\ pc = "text"
    /\ edges = <<>>
    /\ labels = <<>>
    /\ shapes = <<>>
    /\ next_free = 0
    /\ trace = <<>>
    /\ text \in Texts
    /\ once = <<>>
    /\ twice = <<>>

Escape ==
    /\ pc = "text"
    /\ once' = escape_label(text)
    /\ pc' = "escaped"
    /\ UNCHANGED <<func, edges, labels, shapes, next_free, trace, text, twice>>

EscapeAgain ==
    /\ pc = "escaped"
    /\ twice' = escape_label(once)
    /\ pc' = "escaped twice"
    /\ UNCHANGED <<func, edges, labels, shapes, next_free, trace, text, once>>

NextEscape == Escape \/ EscapeAgain

SpecEscape == InitEscape /\ [][NextEscape]_vars

(***************************************************************************)
(* Reading the result of a build.                                          *)
(***************************************************************************)
Built == pc = "built"

Nodes == DOMAIN labels

Front(p) == SubSeq(p, 1, Len(p) - 1)

Last(p) == p[Len(p)]

IsPrefix(p, q) == Len(p) <= Len(q) /\ SubSeq(q, 1, Len(p)) = p

(* The log entries that write a node, and those that open a statement of   *)
(* the source (the If the code makes up for the else of an elif is not     *)
(* one).                                                                   *)
Created == {i \in DOMAIN trace : trace[i].role # "return"}

Dispatched ==
    {i \in DOMAIN trace : /\ trace[i].role \in {"stmt", "decision", "header"}
                          /\ trace[i].stmt.text # T_True}

Conditionals == {i \in Dispatched : trace[i].role = "decision"}

Loops == {i \in Dispatched : trace[i].role = "header"}

(* The node written with the given role for the statement at position p    *)
(* (-1 when there is none).                                                *)
NodeOf(role, p) ==
    IF \E i \in Created : trace[i].role = role /\ trace[i].owner = p
    THEN trace[CHOOSE i \in Created : trace[i].role = role /\ trace[i].owner = p].id
    ELSE -1

(* The node control leaves the statement s at position p from: its own     *)
(* node, the "End If" of an If, the "After Loop" of a loop.                *)
ExitOf(s, p) ==
    IF s.kind = "If" THEN NodeOf("merge", p)
    ELSE IF s.kind \in {"For", "While"} THEN NodeOf("after", p)
    ELSE NodeOf("stmt", p)

(* The final node of the non-empty statement list l at position lp. *)
FinalNode(l, lp) == ExitOf(l[Len(l)], Append(lp, Len(l)))

HasEdge(a, b) == \E i \in DOMAIN edges : edges[i].frm = a /\ edges[i].to = b

HasLabelledEdge(a, b, label) ==
    \E i \in DOMAIN edges : edges[i] = [frm |-> a, to |-> b, label |-> label]

RECURSIVE Reach(_)
Reach(S) ==
    LET S2 == S \cup {edges[i].to : i \in {j \in DOMAIN edges : edges[j].frm \in S}}
    IN IF S2 = S THEN S ELSE Reach(S2)

(* Every path through the list (the statement) ends in a return. *)
RECURSIVE TerminalList(_)
TerminalStmt(s) ==
    \/ s.kind = "Return"
    \/ s.kind = "If" /\ s.orelse # <<>> /\ TerminalList(s.body) /\ TerminalList(s.orelse)

TerminalList(l) == \E i \in DOMAIN l : TerminalStmt(l[i])

(* The list holds a return at some depth. *)
RECURSIVE HasReturn(_)
HasReturn(l) ==
    \E i \in DOMAIN l : l[i].kind = "Return" \/ HasReturn(l[i].body) \/ HasReturn(l[i].orelse)

(* The nodes of the body of the loop of log entry h. *)
BodyNodes(h) ==
    {trace[i].id : i \in {j \in Created :
        \/ trace[j].role = "body" /\ trace[j].owner = trace[h].owner
        \/ IsPrefix(Append(trace[h].owner, 0), trace[j].owner)}}

(* The statements dispatched after entry i in the same list. *)
LaterInList(i) ==
    {j \in Dispatched : /\ Len(trace[j].owner) = Len(trace[i].owner)
                        /\ Front(trace[j].owner) = Front(trace[i].owner)
                        /\ Last(trace[j].owner) > Last(trace[i].owner)}

(***************************************************************************)
(* C1: in every statement list, once a return statement has been           *)
(* processed no later statement of the same list is dispatched, and no     *)
(* node or edge of a later statement is in the output.                     *)
(***************************************************************************)
C1_NothingAfterReturn ==
    Built => \A i \in Dispatched :
                trace[i].stmt.kind = "Return" =>
                    /\ LaterInList(i) = {}
                    /\ \A j \in LaterInList(i) :
                          /\ trace[j].id \notin Nodes
                          /\ \A e \in DOMAIN edges :
                                edges[e].frm # trace[j].id /\ edges[e].to # trace[j].id

(***************************************************************************)
(* C2: after a build the graph has at most one circle node, the function   *)
(* entry, and every other node, every decision node in particular, is      *)
(* reachable from it along the edges.                                      *)
(***************************************************************************)
C2_OneStartAllReachable ==
    Built => /\ Cardinality({n \in Nodes : shapes[n] = "circle"}) <= 1
             /\ \A n \in Nodes : shapes[n] = "circle" => n = NodeOf("start", <<>>)
             /\ Nodes \subseteq Reach({NodeOf("start", <<>>)})

(***************************************************************************)
(* C3: after a build, the source and the destination of every edge are     *)
(* ids of nodes of the node list of the same build.                        *)
(***************************************************************************)
C3_EdgesClosed ==
    \A e \in DOMAIN edges : edges[e].frm \in Nodes /\ edges[e].to \in Nodes

(* A build with a loop nested in a conditional that has an elif. *)
C3_Witness ==
    /\ Built
    /\ \E i \in Created : trace[i].role = "elif"
    /\ \E h \in Loops : Len(trace[h].owner) > 2
    /\ Len(edges) >= 8
    /\ C3_EdgesClosed

(***************************************************************************)
(* C4: a conditional with an else-branch whose then-branch and else-branch *)
(* are both terminal has no merge node and is terminal: the decision node  *)
(* has no outgoing edge but the True and the False edge into the branches, *)
(* and no statement after the conditional in its list is in the graph.     *)
(***************************************************************************)
C4_TerminalConditional ==
    Built => \A c \in Conditionals :
                TerminalStmt(trace[c].stmt) =>
                    /\ NodeOf("merge", trace[c].owner) = -1
                    /\ Cardinality({e \in DOMAIN edges : edges[e].frm = trace[c].id}) = 2
                    /\ \A e \in DOMAIN edges :
                          edges[e].frm = trace[c].id => edges[e].label \in {"True", "False"}
                    /\ LaterInList(c) = {}

(***************************************************************************)
(* C5: for a for-loop or while-loop whose body is terminal, no edge leads  *)
(* from a node of the loop body back to the loop header.                   *)
(***************************************************************************)
C5_NoBackEdgeFromTerminalBody ==
    Built => \A h \in Loops :
                TerminalList(trace[h].stmt.body) =>
                    \A n \in BodyNodes(h) : ~HasEdge(n, trace[h].id)

(***************************************************************************)
(* C6: for a for-loop or while-loop whose body holds no return, exactly    *)
(* one edge into the header comes from the loop body; it starts at the     *)
(* final node of the body and is labelled "Next Iteration" (for) or        *)
(* "Repeat" (while); and the header has exactly one edge labelled "False", *)
(* to a newly created "After Loop" process node.                           *)
(***************************************************************************)
BackEdges(h) ==
    {e \in DOMAIN edges : edges[e].to = trace[h].id /\ edges[e].frm \in BodyNodes(h)}

FalseEdges(h) ==
    {e \in DOMAIN edges : edges[e].frm = trace[h].id /\ edges[e].label = "False"}

C6_LoopWithoutReturn ==
    Built => \A h \in Loops :
                ~HasReturn(trace[h].stmt.body) =>
                    /\ Cardinality(BackEdges(h)) = 1
                    /\ \A e \in BackEdges(h) :
                          /\ edges[e].frm = FinalNode(trace[h].stmt.body,
                                                      Append(trace[h].owner, 0))
                          /\ edges[e].label = IF trace[h].stmt.kind = "For"
                                              THEN "Next Iteration" ELSE "Repeat"
                    /\ Cardinality(FalseEdges(h)) = 1
                    /\ \A e \in FalseEdges(h) :
                          /\ edges[e].to = NodeOf("after", trace[h].owner)
                          /\ edges[e].to \in Nodes
                          /\ labels[edges[e].to] = T_AfterLoop
                          /\ shapes[edges[e].to] = "rect"
                          /\ Cardinality({i \in Created : trace[i].id = edges[e].to}) = 1

(* A build with a for-loop and a while-loop, neither holding a return. *)
C6_Witness ==
    /\ Built
    /\ \E h \in Loops : trace[h].stmt.kind = "For" /\ ~HasReturn(trace[h].stmt.body)
    /\ \E h \in Loops : trace[h].stmt.kind = "While" /\ ~HasReturn(trace[h].stmt.body)
    /\ \E h \in Loops : trace[h].stmt.body[Len(trace[h].stmt.body)].kind = "If"

(***************************************************************************)
(* C7: for a function whose body is n statements, none a conditional, a    *)
(* loop or a return, the body has n nodes and n - 1 edges between body     *)
(* nodes, unlabelled and chaining the statements in list order; for n = 0  *)
(* the build gives exactly one start node and no edges.                    *)
(***************************************************************************)
StraightLine ==
    \A i \in DOMAIN func.body : func.body[i].kind \notin {"If", "For", "While", "Return"}

BodyEdges == {e \in DOMAIN edges : edges[e].frm # NodeOf("start", <<>>)
                                   /\ edges[e].to # NodeOf("start", <<>>)}

C7_StraightLine ==
    (Built /\ StraightLine) =>
        LET n == Len(func.body)
            start == NodeOf("start", <<>>)
        IN /\ start \in Nodes /\ shapes[start] = "circle"
           /\ Cardinality(Nodes \ {start}) = n
           /\ n = 0 => edges = <<>>
           /\ n >= 1 => Cardinality(BodyEdges) = n - 1
           /\ \A e \in BodyEdges : edges[e].label = NoLabel
           /\ \A k \in 1..(n - 1) :
                 /\ NodeOf("stmt", <<0, k>>) \in Nodes \ {start}
                 /\ Cardinality({e \in BodyEdges :
                        /\ edges[e].frm = NodeOf("stmt", <<0, k>>)
                        /\ edges[e].to = NodeOf("stmt", <<0, k + 1>>)}) = 1

(* A build of three assignments in a row. *)
C7_Witness ==
    /\ Built
    /\ StraightLine
    /\ Len(func.body) = 3
    /\ Len(edges) = 3

(***************************************************************************)
(* C8: the label sanitizer is idempotent, and its output never holds a     *)
(* double quote, a pipe or a newline.                                      *)
(***************************************************************************)
C8_EscapeIdempotentAndClean ==
    /\ pc = "escaped twice" => twice = once
    /\ pc \in {"escaped", "escaped twice"} =>
          \A i \in DOMAIN once : once[i] \notin {DQ, PIPE, NL}

(***************************************************************************)
(* C9: a conditional that is not terminal has exactly one merge node, the  *)
(* node the next statement of the list is chained from; the then-exit has  *)
(* an edge to the merge iff the then-branch is not terminal; the else-exit *)
(* has one iff there is an else-branch and it is not terminal (the last    *)
(* node of the else of an elif must lead to the merge); the decision has a *)
(* "False" edge to the merge iff there is no else-branch; and a            *)
(* conditional without else is never terminal.                             *)
(***************************************************************************)
IsElif(s) == Len(s.orelse) = 1 /\ s.orelse[1].kind = "If"

C9_Merge(c) ==
    LET s == trace[c].stmt
        p == trace[c].owner
        merge == NodeOf("merge", p)
        elif_path == p \o <<-1, 1>>
    IN /\ Cardinality({i \in Created : trace[i].role = "merge" /\ trace[i].owner = p}) = 1
       /\ \A j \in LaterInList(c) :
             Last(trace[j].owner) = Last(p) + 1 => HasEdge(merge, trace[j].id)
       /\ HasEdge(FinalNode(s.body, Append(p, 0)), merge) <=> ~TerminalList(s.body)
       /\ (s.orelse # <<>> /\ ~IsElif(s)) =>
             (HasEdge(FinalNode(s.orelse, Append(p, -1)), merge) <=> ~TerminalList(s.orelse))
       /\ (IsElif(s) /\ s.orelse[1].orelse # <<>> /\ ~TerminalList(s.orelse[1].orelse)) =>
             merge \in Reach({FinalNode(s.orelse[1].orelse, elif_path \o <<-1, 0>>)})
       /\ HasLabelledEdge(trace[c].id, merge, "False") <=> s.orelse = <<>>

C9_NonTerminalConditional ==
    Built => \A c \in Conditionals :
                /\ ~TerminalStmt(trace[c].stmt) => C9_Merge(c)
                /\ trace[c].stmt.orelse = <<>> => NodeOf("merge", trace[c].owner) # -1

(***************************************************************************)
(* C10: within one build every node id is given to exactly one node: no    *)
(* node is written under an id that already holds one, and the next free   *)
(* id every call of the builder returns is greater than every id assigned  *)
(* so far.                                                                 *)
(***************************************************************************)
C10_FreshIds ==
    /\ \A i, j \in Created : i # j => trace[i].id # trace[j].id
    /\ \A r \in DOMAIN trace :
          trace[r].role = "return" =>
              \A i \in Created : i < r => trace[i].id < trace[r].id
    /\ Built => \A i \in Created : trace[i].id < next_free

(* A build of an if / elif / else chain: the else of the elif is built by  *)
(* a nested call that returns its next free id.                            *)
C10_Witness ==
    /\ Built
    /\ \E i \in Created : trace[i].role = "elif"
    /\ \E i \in Created : trace[i].role = "decision" /\ trace[i].stmt.text = T_True
    /\ Cardinality({r \in DOMAIN trace : trace[r].role = "return"}) >= 3

====
